---- MODULE Spec2Model ----
(***************************************************************************)
(* Token marking of asttokens (src/asttokens/mark_tokens.py).              *)
(*                                                                         *)
(* MarkTokens.visit_tree walks a parse tree and stores on every node the   *)
(* first and the last token of the source region the node occupies.  The   *)
(* model keeps the walk as a state machine (one step per callback of the   *)
(* tree walker) and the per-node computation as operators that follow      *)
(* _visit_after_children and its helpers line by line.                     *)
(*                                                                         *)
(* Tokens are referred to by their position in the stream: the token at    *)
(* Python index i is the token i + 1 here, and NoTok stands for None.      *)
(* The token stream accessor (self._code) and the helpers of util are not  *)
(* part of mark_tokens.py; they are modelled from the interface that       *)
(* spec.md section 6 and section 4.1 give for them.                        *)
(***************************************************************************)
EXTENDS Integers, Sequences, FiniteSets, TLC

VARIABLES
  scn,          \* which source text of Sources is being marked
  tokens,       \* self._code: the token stream, a sequence of <<type, string>>
  nodes,        \* the tree: node id -> [kind, stmt, anchor, kids, arg]
  py2,          \* six.PY2
  root,         \* the node visit_tree is called on
  phase,        \* "idle", "running", "done" or "failed"
  run,          \* how many times visit_tree has been called
  stack,        \* the walker's stack, top first
  done,         \* the walker's set of nodes already entered
  first_token,  \* node id -> node.first_token (NoTok while the attribute is missing)
  last_token,   \* node id -> node.last_token
  err,          \* the exception that ended the run, or "none"
  npre,         \* node id -> calls of _visit_before_children in this run
  npost,        \* node id -> calls of _visit_after_children in this run
  writes,       \* node id -> assignments of first_token/last_token in this run
  staleRead,    \* a child's range was read before this run had written it
  snap,         \* the ranges the previous completed run had stored
  trace         \* what the last _visit_after_children computed, step by step

vars == <<scn, tokens, nodes, py2, root, phase, run, stack, done, first_token,
          last_token, err, npre, npost, writes, staleRead, snap, trace>>

(***************************************************************************)
(* Bounds of the model.                                                    *)
(***************************************************************************)
\* visit_tree is called at most MaxRuns times on the same tree.
MaxRuns == 2
\* The source text is preceded by at most MaxLead comment lines.
MaxLead == 1

NoTok == 0
AnyStr == "<any>"

(***************************************************************************)
(* Source texts and their trees.                                           *)
(***************************************************************************)
NAME(s) == <<"NAME", s>>
OP(s) == <<"OP", s>>
NUMBER(s) == <<"NUMBER", s>>
STR(s) == <<"STRING", s>>
NEWLINE == <<"NEWLINE", "\n">>
ENDMARKER == <<"ENDMARKER", "">>
COMMENT == <<"COMMENT", "# c">>
NL == <<"NL", "\n">>

E(kind, anchor, kids) ==
  [kind |-> kind, stmt |-> FALSE, anchor |-> anchor, kids |-> kids, arg |-> ""]
S(kind, anchor, kids) ==
  [kind |-> kind, stmt |-> TRUE, anchor |-> anchor, kids |-> kids, arg |-> ""]
K(arg, kids) ==
  [kind |-> "keyword", stmt |-> FALSE, anchor |-> NoTok, kids |-> kids, arg |-> arg]

Src(text, p2, toks, tree) == [text |-> text, py2 |-> p2, toks |-> toks, tree |-> tree]

\* Each entry: the text, whether it is parsed by Python 2, its tokens, and its tree
\* with every node's children in the order iter_children yields them (the order of
\* the node's fields).  anchor is the token at the node's (lineno, col_offset).
Sources == <<
  Src("foo(bar)", FALSE,
      <<NAME("foo"), OP("("), NAME("bar"), OP(")"), NEWLINE, ENDMARKER>>,
      <<E("Module", 0, <<2>>), S("Expr", 1, <<3>>), E("Call", 1, <<4, 5>>),
        E("Name", 1, <<>>), E("Name", 3, <<>>)>>),
  Src("x = f(a, b)", FALSE,
      <<NAME("x"), OP("="), NAME("f"), OP("("), NAME("a"), OP(","), NAME("b"), OP(")"),
        NEWLINE, ENDMARKER>>,
      <<S("Assign", 1, <<2, 3>>), E("Name", 1, <<>>), E("Call", 3, <<4, 5, 6>>),
        E("Name", 3, <<>>), E("Name", 5, <<>>), E("Name", 7, <<>>)>>),
  Src("y = g()", FALSE,
      <<NAME("y"), OP("="), NAME("g"), OP("("), OP(")"), NEWLINE, ENDMARKER>>,
      <<S("Assign", 1, <<2, 3>>), E("Name", 1, <<>>), E("Call", 3, <<4>>),
        E("Name", 3, <<>>)>>),
  Src("t = 1, 2,", FALSE,
      <<NAME("t"), OP("="), NUMBER("1"), OP(","), NUMBER("2"), OP(","), NEWLINE,
        ENDMARKER>>,
      <<S("Assign", 1, <<2, 3>>), E("Name", 1, <<>>), E("Tuple", 3, <<4, 5>>),
        E("Num", 3, <<>>), E("Num", 5, <<>>)>>),
  Src("[x for x in y]", FALSE,
      <<OP("["), NAME("x"), NAME("for"), NAME("x"), NAME("in"), NAME("y"), OP("]"),
        NEWLINE, ENDMARKER>>,
      <<S("Expr", 1, <<2>>), E("ListComp", 2, <<3, 4>>), E("Name", 2, <<>>),
        E("comprehension", 0, <<5, 6>>), E("Name", 4, <<>>), E("Name", 6, <<>>)>>),
  Src("v = a.b.c", FALSE,
      <<NAME("v"), OP("="), NAME("a"), OP("."), NAME("b"), OP("."), NAME("c"), NEWLINE,
        ENDMARKER>>,
      <<S("Assign", 1, <<2, 3>>), E("Name", 1, <<>>), E("Attribute", 3, <<4>>),
        E("Attribute", 3, <<5>>), E("Name", 3, <<>>)>>),
  Src("r = f(x=1)", FALSE,
      <<NAME("r"), OP("="), NAME("f"), OP("("), NAME("x"), OP("="), NUMBER("1"), OP(")"),
        NEWLINE, ENDMARKER>>,
      <<S("Assign", 1, <<2, 3>>), E("Name", 1, <<>>), E("Call", 3, <<4, 5>>),
        E("Name", 3, <<>>), K("x", <<6>>), E("Num", 7, <<>>)>>),
  Src("n = -1", TRUE,
      <<NAME("n"), OP("="), OP("-"), NUMBER("1"), NEWLINE, ENDMARKER>>,
      <<S("Assign", 1, <<2, 3>>), E("Name", 1, <<>>), E("Num", 3, <<>>)>>),
  Src("def f(a) -> b: pass", FALSE,
      <<NAME("def"), NAME("f"), OP("("), NAME("a"), OP(")"), OP("->"), NAME("b"),
        OP(":"), NAME("pass"), NEWLINE, ENDMARKER>>,
      <<S("FunctionDef", 1, <<2, 4, 5>>), E("arguments", 0, <<3>>), E("arg", 4, <<>>),
        S("Pass", 9, <<>>), E("Name", 7, <<>>)>>),
  Src("f({a: (b), c: d})", FALSE,
      <<NAME("f"), OP("("), OP("{"), NAME("a"), OP(":"), OP("("), NAME("b"), OP(")"),
        OP(","), NAME("c"), OP(":"), NAME("d"), OP("}"), OP(")"), NEWLINE, ENDMARKER>>,
      <<E("Call", 1, <<2, 3>>), E("Name", 1, <<>>), E("Dict", 3, <<4, 5, 6, 7>>),
        E("Name", 4, <<>>), E("Name", 10, <<>>), E("Name", 7, <<>>),
        E("Name", 12, <<>>)>>),
  Src("s = a[(b)]", FALSE,
      <<NAME("s"), OP("="), NAME("a"), OP("["), OP("("), NAME("b"), OP(")"), OP("]"),
        NEWLINE, ENDMARKER>>,
      <<S("Assign", 1, <<2, 3>>), E("Name", 1, <<>>), E("Subscript", 3, <<4, 5>>),
        E("Name", 3, <<>>), E("Index", 0, <<6>>), E("Name", 6, <<>>)>>),
  Src("q = a[((b)):c]", FALSE,
      <<NAME("q"), OP("="), NAME("a"), OP("["), OP("("), OP("("), NAME("b"), OP(")"),
        OP(")"), OP(":"), NAME("c"), OP("]"), NEWLINE, ENDMARKER>>,
      <<S("Assign", 1, <<2, 3>>), E("Name", 1, <<>>), E("Subscript", 3, <<4, 5>>),
        E("Name", 3, <<>>), E("Slice", 0, <<6, 7>>), E("Name", 7, <<>>),
        E("Name", 11, <<>>)>>),
  \* Python 3.6: the expression inside an f-string is parsed on its own, and its
  \* position (line 1, column 1) resolves to a token of the first line.
  Src("y=1; z = f'{y}'", FALSE,
      <<NAME("y"), OP("="), NUMBER("1"), NEWLINE, NAME("z"), OP("="), STR("f'{y}'"),
        NEWLINE, ENDMARKER>>,
      <<E("Module", 0, <<2, 5>>), S("Assign", 1, <<3, 4>>), E("Name", 1, <<>>),
        E("Num", 3, <<>>), S("Assign", 5, <<6, 7>>), E("Name", 5, <<>>),
        E("JoinedStr", 7, <<8>>), E("FormattedValue", 7, <<9>>), E("Name", 2, <<>>)>>),
  \* A tree that does not belong to the tokens (the closing delimiter differs).
  Src("w = foo(bar] ; z", FALSE,
      <<NAME("w"), OP("="), NAME("foo"), OP("("), NAME("bar"), OP("]"), NEWLINE,
        NAME("z"), NEWLINE, ENDMARKER>>,
      <<E("Module", 0, <<2, 7>>), S("Assign", 1, <<3, 4>>), E("Name", 1, <<>>),
        E("Call", 3, <<5, 6>>), E("Name", 3, <<>>), E("Name", 5, <<>>),
        S("Expr", 8, <<8>>), E("Name", 8, <<>>)>>),
  \* A call's tree over the tokens of a subscript.
  Src("w = foo[bar]", FALSE,
      <<NAME("w"), OP("="), NAME("foo"), OP("["), NAME("bar"), OP("]"), NEWLINE,
        ENDMARKER>>,
      <<S("Assign", 1, <<2, 3>>), E("Name", 1, <<>>), E("Call", 3, <<4, 5>>),
        E("Name", 3, <<>>), E("Name", 5, <<>>)>>),
  \* No NEWLINE token before the end marker (Python 2 tokenizer, no final newline).
  Src("return q", TRUE,
      <<NAME("return"), NAME("q"), ENDMARKER>>,
      <<S("Return", 1, <<2>>), E("Name", 2, <<>>)>>),
  Src("return (q)", FALSE,
      <<NAME("return"), OP("("), NAME("q"), OP(")"), NEWLINE, ENDMARKER>>,
      <<S("Return", 1, <<2>>), E("Name", 3, <<>>)>>),
  Src("{x for x in y}", TRUE,
      <<OP("{"), NAME("x"), NAME("for"), NAME("x"), NAME("in"), NAME("y"), OP("}"),
        NEWLINE, ENDMARKER>>,
      <<S("Expr", 1, <<2>>), E("SetComp", 2, <<3, 4>>), E("Name", 2, <<>>),
        E("comprehension", 0, <<5, 6>>), E("Name", 4, <<>>), E("Name", 6, <<>>)>>)
>>

\* k comment lines in front of the text: each is a COMMENT and an NL token.
RECURSIVE LeadTokens(_)
LeadTokens(k) == IF k = 0 THEN <<>> ELSE <<COMMENT, NL>> \o LeadTokens(k - 1)

ShiftTree(tree, k) ==
  [n \in DOMAIN tree |->
     [tree[n] EXCEPT !.anchor = IF @ = NoTok THEN NoTok ELSE @ + 2 * k]]

Range(s) == {s[i] : i \in DOMAIN s}

\* All orders in which the children of a node may be enumerated.
PermsOf(s) ==
  {[i \in DOMAIN s |-> s[p[i]]] :
     p \in {q \in [DOMAIN s -> DOMAIN s] : \A i, j \in DOMAIN s : q[i] = q[j] => i = j}}

RECURSIVE PermTrees(_, _)
PermTrees(tree, n) ==
  IF n > Len(tree) THEN {tree}
  ELSE UNION {PermTrees([tree EXCEPT ![n].kids = q], n + 1) : q \in PermsOf(tree[n].kids)}

Nodes == DOMAIN nodes
KidsOf(n) == nodes[n].kids

RECURSIVE Reach(_)
Reach(n) == {n} \cup UNION {Reach(KidsOf(n)[i]) : i \in DOMAIN KidsOf(n)}

(***************************************************************************)
(* The token stream accessor (self._code) and util's token helpers.        *)
(* A token-returning operator yields NoTok where the accessor raises       *)
(* IndexError.                                                             *)
(***************************************************************************)
next_token(tok) == IF tok < Len(tokens) THEN tok + 1 ELSE NoTok

prev_token(tok) == IF tok > 1 THEN tok - 1 ELSE NoTok

\* util.match_token(token, tok_type, tok_str=None)
match_token(tok, tok_type, tok_str) ==
  /\ tokens[tok][1] = tok_type
  /\ (tok_str = AnyStr \/ tokens[tok][2] = tok_str)

\* util.expect_token raises unless the token matches.
expect_token(tok, tok_type, tok_str) == match_token(tok, tok_type, tok_str)

\* The search starts with start_token itself and steps until a token matches.
RECURSIVE find_token(_, _, _, _)
find_token(start_token, tok_type, tok_str, reverse) ==
  IF start_token = NoTok THEN NoTok
  ELSE IF match_token(start_token, tok_type, tok_str) THEN start_token
  ELSE find_token(IF reverse THEN prev_token(start_token) ELSE next_token(start_token),
                  tok_type, tok_str, reverse)

\* The tokens from first_token to last_token, inclusive; empty when they cross.
token_range(first_tok, last_tok) ==
  [i \in 1..(IF last_tok >= first_tok THEN last_tok - first_tok + 1 ELSE 0) |->
     first_tok + i - 1]

Reverse(s) == [i \in DOMAIN s |-> s[Len(s) + 1 - i]]

(***************************************************************************)
(* _matching_pairs_left and _matching_pairs_right.                         *)
(***************************************************************************)
matching_pairs_left ==
  [t \in {OP("("), OP("["), OP("{")} |->
     IF t = OP("(") THEN OP(")") ELSE IF t = OP("[") THEN OP("]") ELSE OP("}")]

matching_pairs_right ==
  [t \in {OP(")"), OP("]"), OP("}")} |->
     IF t = OP(")") THEN OP("(") ELSE IF t = OP("]") THEN OP("[") ELSE OP("{")]

(***************************************************************************)
(* _find_last_in_line.  The result is [tok, err].                          *)
(***************************************************************************)
line_end_same(newline) == newline

line_end_back(newline) == prev_token(newline)

find_last_in_line(start_token) ==
  LET nl == find_token(start_token, "NEWLINE", AnyStr, FALSE)
      newline == IF nl # NoTok THEN nl
                 ELSE find_token(start_token, "ENDMARKER", AnyStr, FALSE)
      res == IF newline = NoTok THEN NoTok ELSE line_end_back(newline)
  IN [tok |-> res, err |-> IF res = NoTok THEN "IndexError" ELSE "none"]

(***************************************************************************)
(* _iter_non_child_tokens.  The result is [toks, err]: the tokens yielded  *)
(* and the exception that ended the generator, if any.                     *)
(***************************************************************************)
RECURSIVE iter_from(_, _, _, _, _)
iter_from(kids, k, tok, last_tok, acc) ==
  IF k > Len(kids) THEN [toks |-> acc \o token_range(tok, last_tok), err |-> "none"]
  ELSE LET n == kids[k]
           before == prev_token(first_token[n])
       IN IF before = NoTok THEN [toks |-> acc, err |-> "IndexError"]
          ELSE LET acc2 == acc \o token_range(tok, before)
               IN IF last_token[n] >= last_tok THEN [toks |-> acc2, err |-> "none"]
                  ELSE LET nxt == next_token(last_token[n])
                       IN IF nxt = NoTok THEN [toks |-> acc2, err |-> "IndexError"]
                          ELSE iter_from(kids, k + 1, nxt, last_tok, acc2)

iter_non_child_tokens(first_tok, last_tok, node) ==
  iter_from(KidsOf(node), 1, first_tok, last_tok, <<>>)

(***************************************************************************)
(* _expand_to_matching_pairs.                                              *)
(***************************************************************************)
\* The scanning loop: the two lists after the tokens toks[k..] have been seen.
RECURSIVE scan_brackets(_, _, _, _)
scan_brackets(toks, k, to_match_right, to_match_left) ==
  IF k > Len(toks) THEN [right |-> to_match_right, left |-> to_match_left]
  ELSE LET tok_info == tokens[toks[k]]
       IN IF to_match_right # <<>> /\ tok_info = to_match_right[Len(to_match_right)]
          THEN scan_brackets(toks, k + 1,
                             SubSeq(to_match_right, 1, Len(to_match_right) - 1),
                             to_match_left)
          ELSE IF tok_info \in DOMAIN matching_pairs_left
          THEN scan_brackets(toks, k + 1,
                             Append(to_match_right, matching_pairs_left[tok_info]),
                             to_match_left)
          ELSE IF tok_info \in DOMAIN matching_pairs_right
          THEN scan_brackets(toks, k + 1, to_match_right,
                             Append(to_match_left, matching_pairs_right[tok_info]))
          ELSE scan_brackets(toks, k + 1, to_match_right, to_match_left)

\* The order in which the two loops after the scan take the pending entries.
closers_in_encounter_order(to_match_right) == to_match_right

closers_order(to_match_right) == Reverse(to_match_right)

openers_order(to_match_left) == to_match_left

\* util.expect_token(last_token, *match) of the two extension loops.
expect_always(tok, match) == TRUE

expect_match(tok, match) == expect_token(tok, match[1], match[2])

\* One extension loop: step (next_token or prev_token) once per entry of order,
\* expecting that entry.  used is the list of entries taken so far.
RECURSIVE extend(_, _, _, _, _)
extend(tok, order, k, forward, used) ==
  IF k > Len(order) THEN [tok |-> tok, err |-> "none", used |-> used]
  ELSE LET t == IF forward THEN next_token(tok) ELSE prev_token(tok)
       IN IF t = NoTok THEN [tok |-> tok, err |-> "IndexError", used |-> used]
          ELSE IF ~expect_match(t, order[k])
          THEN [tok |-> t, err |-> "ExpectError", used |-> Append(used, order[k])]
          ELSE extend(t, order, k + 1, forward, Append(used, order[k]))

NoPass ==
  [ran |-> FALSE, inFirst |-> NoTok, inLast |-> NoTok, scan |-> <<>>,
   scanErr |-> "none", right |-> <<>>,
   left |-> <<>>, usedRight |-> <<>>, usedLeft |-> <<>>, first |-> NoTok,
   last |-> NoTok, err |-> "none"]

\* The steps of _expand_to_matching_pairs, last step first.  p is the record of the
\* pass so far.
expand_left(p, l) ==
  [p EXCEPT !.usedLeft = l.used, !.first = l.tok, !.err = l.err]

expand_right(p, r) ==
  IF r.err # "none" THEN [p EXCEPT !.usedRight = r.used, !.last = r.tok, !.err = r.err]
  ELSE expand_left([p EXCEPT !.usedRight = r.used, !.last = r.tok],
                   extend(p.inFirst, openers_order(p.left), 1, FALSE, <<>>))

expand_lists(p, sc) ==
  expand_right([p EXCEPT !.right = sc.right, !.left = sc.left],
               extend(p.inLast, closers_order(sc.right), 1, TRUE, <<>>))

expand_scanned(p, it) ==
  IF it.err # "none"
  THEN [p EXCEPT !.scan = it.toks, !.scanErr = it.err, !.err = it.err]
  ELSE expand_lists([p EXCEPT !.scan = it.toks], scan_brackets(it.toks, 1, <<>>, <<>>))

expand_to_matching_pairs(first_tok, last_tok, node) ==
  expand_scanned([NoPass EXCEPT !.ran = TRUE, !.inFirst = first_tok, !.inLast = last_tok],
                 iter_non_child_tokens(first_tok, last_tok, node))

(***************************************************************************)
(* Node visitors.  Each takes the preliminary first and last tokens and    *)
(* yields [first, last, err].                                              *)
(***************************************************************************)
Pair(first_tok, last_tok) == [first |-> first_tok, last |-> last_tok, err |-> "none"]
Raise(first_tok, last_tok, e) == [first |-> first_tok, last |-> last_tok, err |-> e]

visit_default(node, first_tok, last_tok) == Pair(first_tok, last_tok)

handle_comp(open_brace, node, first_tok, last_tok) ==
  LET before == prev_token(first_tok)
  IN IF before = NoTok THEN Raise(first_tok, last_tok, "IndexError")
     ELSE IF ~expect_token(before, "OP", open_brace)
     THEN Raise(first_tok, last_tok, "ExpectError")
     ELSE Pair(before, last_tok)

visit_listcomp(node, first_tok, last_tok) == handle_comp("[", node, first_tok, last_tok)

visit_setcomp(node, first_tok, last_tok) == handle_comp("{", node, first_tok, last_tok)

visit_dictcomp(node, first_tok, last_tok) == handle_comp("{", node, first_tok, last_tok)

visit_comprehension(node, first_tok, last_tok) ==
  LET first == find_token(first_tok, "NAME", "for", TRUE)
  IN IF first = NoTok THEN Raise(first_tok, last_tok, "IndexError")
     ELSE Pair(first, last_tok)

handle_attr(node, first_tok, last_tok) ==
  LET dot == find_token(last_tok, "OP", ".", FALSE)
      name == IF dot = NoTok THEN NoTok ELSE next_token(dot)
  IN IF name = NoTok THEN Raise(first_tok, last_tok, "IndexError")
     ELSE IF ~expect_token(name, "NAME", AnyStr)
     THEN Raise(first_tok, last_tok, "ExpectError")
     ELSE Pair(first_tok, name)

visit_call(node, first_tok, last_tok) ==
  LET close == find_token(last_tok, "OP", ")", FALSE)
  IN IF close = NoTok THEN Raise(first_tok, last_tok, "IndexError")
     ELSE Pair(first_tok, close)

visit_subscript(node, first_tok, last_tok) ==
  LET close == find_token(last_tok, "OP", "]", FALSE)
  IN IF close = NoTok THEN Raise(first_tok, last_tok, "IndexError")
     ELSE Pair(first_tok, close)

visit_tuple(node, first_tok, last_tok) ==
  LET maybe_comma == next_token(last_tok)
  IN IF maybe_comma # NoTok /\ match_token(maybe_comma, "OP", ",")
     THEN Pair(first_tok, maybe_comma)
     ELSE Pair(first_tok, last_tok)

RECURSIVE visit_num(_, _, _)
visit_num(node, first_tok, last_tok) ==
  IF last_tok = NoTok THEN Raise(first_tok, last_tok, "IndexError")
  ELSE IF match_token(last_tok, "OP", AnyStr)
  THEN visit_num(node, first_tok, next_token(last_tok))
  ELSE Pair(first_tok, last_tok)

visit_keyword(node, first_tok, last_tok) ==
  IF nodes[node].arg = "" THEN Pair(first_tok, last_tok)
  ELSE LET equals == find_token(first_tok, "OP", "=", TRUE)
           name == IF equals = NoTok THEN NoTok ELSE prev_token(equals)
       IN IF name = NoTok THEN Raise(first_tok, last_tok, "IndexError")
          ELSE IF ~expect_token(name, "NAME", nodes[node].arg)
          THEN Raise(first_tok, last_tok, "ExpectError")
          ELSE Pair(name, last_tok)

\* self._methods.get(self, node.__class__): the method named visit_<class name in
\* lower case>, or visit_default.
visit_node(node, first_tok, last_tok) ==
  LET kind == nodes[node].kind
  IN IF kind = "ListComp" THEN visit_listcomp(node, first_tok, last_tok)
     ELSE IF kind = "SetComp" /\ py2 THEN visit_setcomp(node, first_tok, last_tok)
     ELSE IF kind = "DictComp" /\ py2 THEN visit_dictcomp(node, first_tok, last_tok)
     ELSE IF kind \in {"comprehension", "Comprehension"}
     THEN visit_comprehension(node, first_tok, last_tok)
     ELSE IF kind \in {"Attribute", "AssignAttr", "DelAttr"}
     THEN handle_attr(node, first_tok, last_tok)
     ELSE IF kind = "Call" THEN visit_call(node, first_tok, last_tok)
     ELSE IF kind = "Subscript" THEN visit_subscript(node, first_tok, last_tok)
     ELSE IF kind = "Tuple" THEN visit_tuple(node, first_tok, last_tok)
     ELSE IF kind = "Num" THEN visit_num(node, first_tok, last_tok)
     ELSE IF kind \in {"keyword", "Keyword"} THEN visit_keyword(node, first_tok, last_tok)
     ELSE visit_default(node, first_tok, last_tok)

(***************************************************************************)
(* _visit_before_children and _visit_after_children.                       *)
(***************************************************************************)
\* The token at the node's position, or None when the node has no col_offset.
get_token(node) == nodes[node].anchor

\* (token or parent_token, token)
visit_before_children(node, parent_token) ==
  LET token == get_token(node)
  IN <<IF token # NoTok THEN token ELSE parent_token, token>>

\* The two starting values of the loop over the children.
seed_none(node, token) == NoTok

seed_first(node, token) == token

seed_stored_last(node, token) == last_token[node]

seed_last(node, token) == NoTok

\* The two tests of the loop over the children.
take_first(child, first) == first = NoTok \/ first_token[child] < first

take_last_smaller(child, last) == last = NoTok \/ last_token[child] < last

take_last(child, last) == last = NoTok \/ last_token[child] > last

RECURSIVE combine(_, _, _, _)
combine(kids, k, first, last) ==
  IF k > Len(kids) THEN [first |-> first, last |-> last]
  ELSE combine(kids, k + 1,
               IF take_first(kids[k], first) THEN first_token[kids[k]] ELSE first,
               IF take_last(kids[k], last) THEN last_token[kids[k]] ELSE last)

NoTrace ==
  [node |-> 0, token |-> NoTok, pfirst |-> NoTok, plast0 |-> NoTok, plast |-> NoTok,
   p1 |-> NoPass, refined |-> Pair(NoTok, NoTok), p2 |-> NoPass,
   first |-> NoTok, last |-> NoTok, err |-> "none", stale |-> FALSE]

\* The steps of _visit_after_children, last step first.  t is the record of what
\* has been computed so far; the pair to assign is (t.first, t.last), unless an
\* exception ended the call (t.err).
after_second_repair(t) ==
  IF t.p2.err # "none" THEN [t EXCEPT !.err = t.p2.err]
  ELSE [t EXCEPT !.first = t.p2.first, !.last = t.p2.last]

after_refined(node, t) ==
  IF t.refined.err # "none" THEN [t EXCEPT !.err = t.refined.err]
  ELSE IF <<t.refined.first, t.refined.last>> # <<t.p1.first, t.p1.last>>
  THEN after_second_repair(
         [t EXCEPT !.p2 = expand_to_matching_pairs(t.refined.first, t.refined.last, node)])
  ELSE [t EXCEPT !.first = t.refined.first, !.last = t.refined.last]

after_first_repair(node, t) ==
  IF t.p1.err # "none" THEN [t EXCEPT !.err = t.p1.err]
  ELSE after_refined(node, [t EXCEPT !.refined = visit_node(node, t.p1.first, t.p1.last)])

after_line(node, t, ll) ==
  IF ll.err # "none" THEN [t EXCEPT !.err = ll.err]
  ELSE after_first_repair(node,
         [t EXCEPT !.plast = ll.tok,
                   !.p1 = expand_to_matching_pairs(t.pfirst, ll.tok, node)])

after_last(node, t) ==
  after_line(node, t, IF nodes[node].stmt THEN find_last_in_line(t.plast0)
                      ELSE [tok |-> t.plast0, err |-> "none"])

after_first(node, t, first, last) ==
  IF first = NoTok THEN [t EXCEPT !.err = "AttributeError"]
  ELSE after_last(node, [t EXCEPT !.pfirst = first,
                                  !.plast0 = IF last # NoTok THEN last ELSE first])

after_loop(node, parent_token, t, c) ==
  after_first(node, t, IF c.first # NoTok THEN c.first ELSE parent_token, c.last)

after_children(node, parent_token, token) ==
  IF \E i \in DOMAIN KidsOf(node) : first_token[KidsOf(node)[i]] = NoTok
  THEN [NoTrace EXCEPT !.node = node, !.token = token, !.stale = TRUE,
                       !.err = "AttributeError"]
  ELSE after_loop(node, parent_token,
                  [NoTrace EXCEPT !.node = node, !.token = token,
                     !.stale = \E i \in DOMAIN KidsOf(node) : writes[KidsOf(node)[i]] = 0],
                  combine(KidsOf(node), 1, seed_first(node, token), seed_last(node, token)))

\* node.first_token = nfirst; node.last_token = nlast
assign_first_token(node, nfirst) == [first_token EXCEPT ![node] = nfirst]

keep_last_token(node, nlast) == last_token

assign_last_token(node, nlast) == [last_token EXCEPT ![node] = nlast]

(***************************************************************************)
(* The walk: MarkTokens.visit_tree and the steps of util.visit_tree.       *)
(***************************************************************************)
Zero == [n \in Nodes |-> 0]

\* visit_tree(node): the walker starts with the root on its stack.
visit_tree ==
  /\ phase \in {"idle", "done", "failed"}
  /\ run < MaxRuns
  /\ run' = run + 1
  /\ phase' = "running"
  /\ stack' = <<[node |-> root, par |-> NoTok, val |-> NoTok, pre |-> TRUE]>>
  /\ done' = {}
  /\ err' = "none"
  /\ npre' = Zero
  /\ npost' = Zero
  /\ writes' = Zero
  /\ staleRead' = FALSE
  /\ trace' = NoTrace
  /\ snap' = IF phase = "done"
             THEN [valid |-> TRUE, first |-> first_token, last |-> last_token]
             ELSE [valid |-> FALSE, first |-> first_token, last |-> last_token]
  /\ UNCHANGED <<scn, tokens, nodes, py2, root, first_token, last_token>>

\* The walker enters the node on top of its stack: previsit, then the node again
\* for its postvisit, below its children (the first child on top).
previsit ==
  /\ phase = "running"
  /\ stack # <<>>
  /\ Head(stack).pre
  /\ LET top == Head(stack)
         current == top.node
         bc == visit_before_children(current, top.par)
         kids == KidsOf(current)
     IN IF current \in done
        THEN /\ phase' = "failed"
             /\ err' = "AssertionError"
             /\ stack' = <<>>
             /\ UNCHANGED <<done, npre>>
        ELSE /\ done' = done \cup {current}
             /\ npre' = [npre EXCEPT ![current] = @ + 1]
             /\ stack' = [i \in DOMAIN kids |->
                            [node |-> kids[i], par |-> bc[1], val |-> NoTok, pre |-> TRUE]]
                         \o <<[node |-> current, par |-> top.par, val |-> bc[2],
                               pre |-> FALSE]>>
                         \o Tail(stack)
             /\ UNCHANGED <<phase, err>>
  /\ UNCHANGED <<scn, tokens, nodes, py2, root, run, first_token, last_token, npost,
                 writes, staleRead, snap, trace>>

\* The walker leaves the node on top of its stack: _visit_after_children.  An
\* exception ends the walk; otherwise the range is stored on the node.
postvisit ==
  /\ phase = "running"
  /\ stack # <<>>
  /\ ~Head(stack).pre
  /\ LET top == Head(stack)
         r == after_children(top.node, top.par, top.val)
     IN /\ trace' = r
        /\ npost' = [npost EXCEPT ![top.node] = @ + 1]
        /\ staleRead' = (staleRead \/ r.stale)
        /\ IF r.err = "none"
           THEN /\ first_token' = assign_first_token(top.node, r.first)
                /\ last_token' = assign_last_token(top.node, r.last)
                /\ writes' = [writes EXCEPT ![top.node] = @ + 1]
                /\ stack' = Tail(stack)
                /\ phase' = IF Tail(stack) = <<>> THEN "done" ELSE "running"
                /\ err' = "none"
           ELSE /\ phase' = "failed"
                /\ err' = r.err
                /\ stack' = <<>>
                /\ UNCHANGED <<first_token, last_token, writes>>
  /\ UNCHANGED <<scn, tokens, nodes, py2, root, run, done, npre, snap>>

\* A node visit_tree can be called on: it has a position or children.
Roots(tree) == {n \in DOMAIN tree : tree[n].anchor # NoTok \/ tree[n].kids # <<>>}

Init ==
  \E s \in DOMAIN Sources, k \in 0..MaxLead :
    /\ scn = s
    /\ py2 = Sources[s].py2
    /\ tokens = LeadTokens(k) \o Sources[s].toks
    /\ nodes \in PermTrees(ShiftTree(Sources[s].tree, k), 1)
    /\ root \in Roots(Sources[s].tree)
    /\ phase = "idle"
    /\ run = 0
    /\ stack = <<>>
    /\ done = {}
    /\ first_token = [n \in DOMAIN Sources[s].tree |-> NoTok]
    /\ last_token = [n \in DOMAIN Sources[s].tree |-> NoTok]
    /\ err = "none"
    /\ npre = [n \in DOMAIN Sources[s].tree |-> 0]
    /\ npost = [n \in DOMAIN Sources[s].tree |-> 0]
    /\ writes = [n \in DOMAIN Sources[s].tree |-> 0]
    /\ staleRead = FALSE
    /\ snap = [valid |-> FALSE,
               first |-> [n \in DOMAIN Sources[s].tree |-> NoTok],
               last |-> [n \in DOMAIN Sources[s].tree |-> NoTok]]
    /\ trace = NoTrace

Next == visit_tree \/ previsit \/ postvisit

Spec == Init /\ [][Next]_vars

(***************************************************************************)
(* Properties.                                                             *)
(***************************************************************************)
Lead == (Len(tokens) - Len(Sources[scn].toks)) \div 2

\* The children of every node are enumerated in the order of the node's fields.
FieldOrder == nodes = ShiftTree(Sources[scn].tree, Lead)

Anchor(n) == nodes[n].anchor

Kids(n) == Range(KidsOf(n))

Count(info, a, b) == Cardinality({i \in a..b : tokens[i] = info})

Balanced(n) ==
  \A open \in DOMAIN matching_pairs_left :
    Count(open, first_token[n], last_token[n])
      = Count(matching_pairs_left[open], first_token[n], last_token[n])

IsPrefix(a, b) == Len(a) <= Len(b) /\ \A i \in DOMAIN a : a[i] = b[i]

RECURSIVE Ascending(_)
Ascending(set) ==
  IF set = {} THEN <<>>
  ELSE LET m == CHOOSE x \in set : \A y \in set : x <= y
       IN <<m>> \o Ascending(set \ {m})

Passes == {trace.p1, trace.p2}

\* C1: once visit_tree has completed without error, every node's range is not
\* empty and contains the range of each of its children, whatever the order in
\* which children are enumerated.
Containment ==
  phase = "done" =>
    \A n \in Reach(root) :
      /\ 1 <= first_token[n]
      /\ first_token[n] <= last_token[n]
      /\ last_token[n] <= Len(tokens)
      /\ \A c \in Kids(n) :
           /\ first_token[n] <= first_token[c]
           /\ first_token[c] <= last_token[c]
           /\ last_token[c] <= last_token[n]

\* A completed run over a statement with a call below it (line extension, both
\* repairs and a refinement have run) whose children are not in field order.
ContainmentWitness ==
  /\ phase = "done"
  /\ ~FieldOrder
  /\ nodes[root].stmt
  /\ \E n \in Reach(root) :
       nodes[n].kind = "Call" /\ Cardinality(Kids(n)) >= 2 /\ last_token[n] > Anchor(n)

\* C2: once visit_tree has completed without error, every node's range holds as
\* many opening as closing delimiters of each of the three kinds.  (Stated here
\* for children enumerated in field order, which is one of the orders the claim
\* covers.)
Balance ==
  (phase = "done" /\ FieldOrder) => \A n \in Reach(root) : Balanced(n)

\* C3: in a run no callback runs twice on a node, a node is entered before its
\* children, it is assigned only after all its descendants are, at most once, and
\* a completed run has assigned first_token and last_token of every node under
\* the root exactly once.
PostOrderOnce ==
  /\ \A n \in Nodes :
       /\ npre[n] <= 1
       /\ npost[n] <= npre[n]
       /\ writes[n] <= npost[n]
       /\ n \notin Reach(root) => npre[n] = 0
       /\ n \in Reach(root) =>
            \A c \in Kids(n) :
              /\ npre[c] >= 1 => npre[n] = 1
              /\ npost[n] >= 1 => writes[c] = 1
       /\ writes[n] = 1 => \A d \in Reach(n) : writes[d] = 1
  /\ phase = "done" =>
       \A n \in Reach(root) :
         writes[n] = 1 /\ first_token[n] # NoTok /\ last_token[n] # NoTok

PostOrderOnceWitness ==
  /\ phase = "done"
  /\ Cardinality(Reach(root)) >= 5
  /\ \E n \in Reach(root) : n # root /\ Kids(n) # {}

\* A token that an extension loop of bracket repair stepped onto is not the
\* delimiter expected there.
Mismatch(p) ==
  /\ p.ran
  /\ \/ \E k \in DOMAIN p.usedRight :
          p.inLast + k <= Len(tokens) /\ tokens[p.inLast + k] # p.usedRight[k]
     \/ \E k \in DOMAIN p.usedLeft :
          p.inFirst - k >= 1 /\ tokens[p.inFirst - k] # p.usedLeft[k]

\* The closing delimiter a call or subscript is refined to does not exist.
NoCloser ==
  /\ trace.node # 0
  /\ nodes[trace.node].kind \in {"Call", "Subscript"}
  /\ trace.p1.ran
  /\ trace.p1.err = "none"
  /\ ~\E i \in trace.p1.last..Len(tokens) :
        tokens[i] = OP(IF nodes[trace.node].kind = "Call" THEN ")" ELSE "]")

Aborted ==
  /\ (\E p \in Passes : Mismatch(p)) => (phase = "failed" /\ err = "ExpectError")
  /\ NoCloser => (phase = "failed" /\ err = "IndexError")
  /\ phase = "failed" =>
       /\ err # "none"
       /\ stack = <<>>
       /\ trace.node # 0 => writes[trace.node] = 0
       /\ \A n \in Reach(root) :
            writes[n] = 0 => (first_token[n] = NoTok /\ last_token[n] = NoTok)

\* C4: a failed expected-token check, or a step off the token stream, ends the
\* run at once: the node being processed and the nodes after it have no
\* first_token/last_token, and the step that fails changes neither the ranges
\* stored before nor the token stream.
AbortOnError ==
  /\ []Aborted
  /\ [][phase' = "failed" =>
          (first_token' = first_token /\ last_token' = last_token /\ tokens' = tokens)]_vars

AbortOnErrorWitness ==
  /\ phase = "failed"
  /\ err = "ExpectError"
  /\ \E p \in Passes : Mismatch(p)
  /\ \E n \in Reach(root) : writes[n] = 1
  /\ \E n \in Reach(root) : n # trace.node /\ npre[n] = 0

\* C5: a second visit_tree on a tree a first one has marked stores the same
\* ranges, and no range is read before the run that reads it has written it.
Idempotence ==
  /\ ~staleRead
  /\ (phase = "done" /\ snap.valid) =>
       (first_token = snap.first /\ last_token = snap.last)

IdempotenceWitness ==
  /\ phase = "done"
  /\ run = 2
  /\ snap.valid
  /\ \E n \in Reach(root) : Kids(n) # {} /\ last_token[n] > Anchor(n) /\ Anchor(n) # NoTok

\* The closing parenthesis that belongs to the opening one at token i.
CloseOf(i) ==
  LET cands == {j \in i..Len(tokens) :
                  tokens[j] = OP(")") /\ Count(OP("("), i, j) = Count(OP(")"), i, j)}
  IN IF cands = {} THEN NoTok ELSE CHOOSE j \in cands : \A j2 \in cands : j <= j2

\* The callee is the first child of a call, and the call is anchored at it.
Callee(n) == KidsOf(n)[1]

\* C6: a call whose callee is directly followed by its parenthesised argument
\* list is marked without error, from the callee's first token to the closing
\* parenthesis of the argument list; in particular for `foo(bar)` at the very
\* start of the token stream.
CallRange ==
  (phase \in {"done", "failed"} /\ FieldOrder) =>
    \A n \in Reach(root) :
      (/\ nodes[n].kind = "Call"
       /\ writes[Callee(n)] = 1
       /\ last_token[Callee(n)] < Len(tokens)
       /\ tokens[last_token[Callee(n)] + 1] = OP("(")
       /\ CloseOf(last_token[Callee(n)] + 1) # NoTok
       /\ \A m \in Reach(n) \ {n} : nodes[m].kind \in {"Name", "Num", "keyword"})
      => /\ writes[n] = 1
         /\ first_token[n] = first_token[Callee(n)]
         /\ last_token[n] = CloseOf(last_token[Callee(n)] + 1)

\* The tokens of [first, last] that lie in no child's range, in increasing order.
GapTokens(n, first, last) ==
  Ascending({i \in first..last :
               \A c \in Kids(n) : ~(first_token[c] <= i /\ i <= last_token[c])})

\* C7: the first bracket repair of a node scans exactly the tokens of its
\* preliminary range that lie in no child's range, each once and in increasing
\* order.  (Stated here for children enumerated in field order.)
GapScanExact ==
  (FieldOrder /\ trace.node # 0 /\ trace.p1.ran /\ trace.p1.scanErr = "none") =>
    trace.p1.scan = GapTokens(trace.node, trace.p1.inFirst, trace.p1.inLast)

\* What the two extension loops of a repair pass leave behind when the pending
\* closers are taken in the order ro and the pending openers in the order lo.
Extended(p, ro, lo) ==
  /\ IsPrefix(p.usedRight, ro)
  /\ IsPrefix(p.usedLeft, lo)
  /\ p.err = "none" =>
       /\ p.usedRight = ro
       /\ p.usedLeft = lo
       /\ p.last = p.inLast + Len(ro)
       /\ p.first = p.inFirst - Len(lo)
       /\ \A k \in DOMAIN ro : tokens[p.inLast + k] = ro[k]
       /\ \A k \in DOMAIN lo : tokens[p.inFirst - k] = lo[k]
  /\ (/\ \A k \in DOMAIN ro : p.inLast + k <= Len(tokens) /\ tokens[p.inLast + k] = ro[k]
      /\ \A k \in DOMAIN lo : p.inFirst - k >= 1 /\ tokens[p.inFirst - k] = lo[k])
     => p.err = "none"

LineEnd(i) ==
  LET nls == {j \in i..Len(tokens) : tokens[j][1] = "NEWLINE"}
      ends == {j \in i..Len(tokens) : tokens[j][1] = "ENDMARKER"}
      stop == IF nls # {} THEN nls ELSE ends
  IN IF stop = {} THEN NoTok ELSE (CHOOSE j \in stop : \A j2 \in stop : j <= j2) - 1

\* C9: the preliminary last token is the largest last token of the children (the
\* first token when there are none); for a statement it is replaced, before
\* bracket repair, by the token before the line's NEWLINE (before the end marker
\* when no NEWLINE follows), which is neither a NEWLINE nor the end marker and
\* is not before the token it replaces; other nodes keep it.
LineExtension ==
  (trace.node # 0 /\ trace.pfirst # NoTok) =>
    /\ trace.plast0 =
         IF Kids(trace.node) = {} THEN trace.pfirst
         ELSE CHOOSE l \in {last_token[c] : c \in Kids(trace.node)} :
                \A c \in Kids(trace.node) : last_token[c] <= l
    /\ ~nodes[trace.node].stmt => trace.plast = trace.plast0
    /\ nodes[trace.node].stmt =>
         /\ trace.plast = LineEnd(trace.plast0)
         /\ trace.plast >= trace.plast0
         /\ tokens[trace.plast][1] \notin {"NEWLINE", "ENDMARKER"}
    /\ trace.p1.ran
    /\ trace.p1.inLast = trace.plast

LineExtensionWitness ==
  /\ trace.node # 0
  /\ nodes[trace.node].stmt
  /\ trace.plast > trace.plast0
  /\ writes[trace.node] = 1

\* C10 as stated: the range of a node that has an anchor token contains it.
AnchorInside ==
  \A n \in Nodes :
    (writes[n] = 1 /\ Anchor(n) # NoTok) =>
      (first_token[n] <= Anchor(n) /\ Anchor(n) <= last_token[n])

\* C10 as amended: the range of a node that has an anchor token starts at or
\* before it, and ends at or after it when the node has no children or one of its
\* children ends at or after the anchor.
AnchorInsideIfReached ==
  \A n \in Nodes :
    (writes[n] = 1 /\ Anchor(n) # NoTok) =>
      /\ first_token[n] <= Anchor(n)
      /\ (Kids(n) = {} \/ \E c \in Kids(n) : last_token[c] >= Anchor(n))
           => Anchor(n) <= last_token[n]

AnchorInsideWitness ==
  \E n \in Nodes :
    /\ writes[n] = 1
    /\ Kids(n) # {}
    /\ first_token[n] < Anchor(n)
    /\ Anchor(n) < last_token[n]

====
